---- MODULE Spec2Model ----
(***************************************************************************)
(* TripSaathi: the message batcher, the JSON state store and the n8n       *)
(* round trip of src/index.js (the variant that starts at line 74).        *)
(*                                                                         *)
(* Strings that the code inspects character by character (chat ids, the    *)
(* response text) are sequences of one-character strings.  null/undefined  *)
(* identifiers are the empty sequence, which is falsy in JavaScript like   *)
(* null.  An optional value is a sequence of length 0 (absent) or 1.       *)
(***************************************************************************)
EXTENDS Integers, Sequences, FiniteSets, TLC

VARIABLES
  lastGroupChatId,  \* index.js:102  last active group chat id, <<>> = null
  messageBuffer,    \* index.js:103  messages collected in the window
  bufferTimer,      \* index.js:104  timer handle, NoTimer = null
  timers,           \* the host's pending timeouts: remaining seconds of each
  clock,            \* seconds since the message that opened the window
  cycles,           \* the timer callbacks that are suspended at an await
  disk,             \* data/groups: path -> file content
  arrived,          \* number of 'message' events so far
  started,          \* number of timer callbacks started so far
  finished,         \* the callback that completed in the last step, if any
  now,              \* Date.now(), in units in which two cycles differ
  call,             \* the last call of a state store function, when these
  prev              \*   are called one by one, and the call before it

vars == <<lastGroupChatId, messageBuffer, bufferTimer, timers, clock, cycles,
          disk, arrived, started, finished, now, call, prev>>

storeVars == <<call, prev>>

----------------------------------------------------------------------------
(* Bounds of the model *)

MaxMsgs == 3

MaxCycles == 2

(* The calls of state store functions in a run that calls them one by one *)
MaxOps == 3

(* The longest identifier given to getGroupDir on its own *)
MaxIdLen == 3

(* CONFIG.batchWindowMs, in seconds *)
batchWindowMs == 10

----------------------------------------------------------------------------
(* Strings *)

NoTimer == "null"

Handle == "Timeout"

GroupSuffix == <<"@", "g", ".", "u", "s">>

G1 == <<"1", "@", "g", ".", "u", "s">>

G2 == <<"2", "@", "g", ".", "u", "s">>

G3 == <<"3", "@", "g", ".", "u", "s">>

U1 == <<"7", "@", "c", ".", "u", "s">>

M1 == <<"8", "@", "c", ".", "u", "s">>

M2 == <<"9", "@", "c", ".", "u", "s">>

Groups == {G1, G2}

Senders == {G1, G2, U1}

endsWith(s, suffix) ==
  /\ Len(s) >= Len(suffix)
  /\ SubSeq(s, Len(s) - Len(suffix) + 1, Len(s)) = suffix

Letters ==
  {"a", "b", "c", "d", "e", "f", "g", "h", "i", "j", "k", "l", "m", "n",
   "o", "p", "q", "r", "s", "t", "u", "v", "w", "x", "y", "z",
   "A", "B", "C", "D", "E", "F", "G", "H", "I", "J", "K", "L", "M", "N",
   "O", "P", "Q", "R", "S", "T", "U", "V", "W", "X", "Y", "Z"}

Digits == {"0", "1", "2", "3", "4", "5", "6", "7", "8", "9"}

SafeChars == Letters \cup Digits \cup {"_", ".", "-"}

(* A replace without the g flag: only the first match is replaced *)
sanitizeFirst(s) ==
  [i \in 1..Len(s) |->
     IF s[i] \notin SafeChars /\ \A j \in 1..(i - 1) : s[j] \in SafeChars
     THEN "_" ELSE s[i]]

(* groupId.replace(/[^a-zA-Z0-9_.-]/g, '_') *)
sanitize(s) == [i \in 1..Len(s) |-> IF s[i] \in SafeChars THEN s[i] ELSE "_"]

Whitespace == {" "}

RECURSIVE trimStart(_)
trimStart(s) ==
  IF s # <<>> /\ Head(s) \in Whitespace THEN trimStart(Tail(s)) ELSE s

RECURSIVE trimEnd(_)
trimEnd(s) ==
  IF s # <<>> /\ s[Len(s)] \in Whitespace
  THEN trimEnd(SubSeq(s, 1, Len(s) - 1)) ELSE s

trim(s) == trimEnd(trimStart(s))

UpperSeq ==
  <<"A", "B", "C", "D", "E", "F", "G", "H", "I", "J", "K", "L", "M", "N",
    "O", "P", "Q", "R", "S", "T", "U", "V", "W", "X", "Y", "Z">>

LowerSeq ==
  <<"a", "b", "c", "d", "e", "f", "g", "h", "i", "j", "k", "l", "m", "n",
    "o", "p", "q", "r", "s", "t", "u", "v", "w", "x", "y", "z">>

lowerOf(c) ==
  IF \E i \in 1..26 : UpperSeq[i] = c
  THEN LowerSeq[CHOOSE i \in 1..26 : UpperSeq[i] = c]
  ELSE c

toLowerCase(s) == [i \in 1..Len(s) |-> lowerOf(s[i])]

Skip == <<"s", "k", "i", "p">>

----------------------------------------------------------------------------
(* The state store: data/groups/<dir>/group.json and <memberId>.json.      *)
(* A JSON object is a record of the fields the model follows; "absent"     *)
(* marks a field the object does not have.  A file is its parsed content.  *)

MyId == <<"5", "@", "c", ".", "u", "s">>

JsonExt == <<".", "j", "s", "o", "n">>

GroupFileName == <<"g", "r", "o", "u", "p">> \o JsonExt

(* chat.participants of the chat that client.getChatById returns *)
participantsOf(chatId) ==
  IF chatId = G1 THEN <<MyId, M1>>
  ELSE IF chatId = G3 THEN <<M2, MyId, M1>>
  ELSE <<M2>>

(* defaultGroupState(), built when Date.now() is t: planningStart and      *)
(* lastUpdated are t                                                       *)
defaultGroupState(t) ==
  [id |-> <<>>, name |-> <<>>, destination |-> "null",
   consensus |-> "unknown", role |-> "absent", lastUpdated |-> t]

(* defaultMemberState(memberId, memberName), built when Date.now() is t *)
defaultMemberState(memberId, memberName, t) ==
  [id |-> memberId, name |-> memberName, destination |-> "absent",
   consensus |-> "absent", role |-> "member", lastUpdated |-> t]

(* A group state and a member state the orchestrator may send back *)
GoaGroup ==
  [id |-> <<>>, name |-> <<>>, destination |-> "Goa",
   consensus |-> "agreed", role |-> "absent", lastUpdated |-> 0]

PlannerM1 ==
  [id |-> M1, name |-> <<"8">>, destination |-> "absent",
   consensus |-> "absent", role |-> "planner", lastUpdated |-> 0]

NoIdMember ==
  [id |-> <<>>, name |-> <<>>, destination |-> "absent",
   consensus |-> "absent", role |-> "finance", lastUpdated |-> 0]

(* A null entry of updated.members: the record stands for the value null, *)
(* which has no fields                                                     *)
NullEntry ==
  [id |-> <<>>, name |-> <<>>, destination |-> "absent",
   consensus |-> "absent", role |-> "null", lastUpdated |-> 0]

(* Records written by an earlier run of the program *)
StoredGroup ==
  [id |-> <<>>, name |-> <<>>, destination |-> "Manali",
   consensus |-> "voting", role |-> "absent", lastUpdated |-> 0]

StoredM1 ==
  [id |-> M1, name |-> <<"8">>, destination |-> "absent",
   consensus |-> "absent", role |-> "decision", lastUpdated |-> 0]

File(obj) == [val |-> obj]

(* getGroupDir(groupId): the directory of a group *)
getGroupDir(groupId) == sanitize(groupId)

groupFileOf(dir) == <<dir, GroupFileName>>

memberFileOf(dir, memberId) == <<dir, memberId \o JsonExt>>

(* A load that never reads the file *)
loadJSONDefault(d, filePath, defaultValue, rf) == defaultValue

(* loadJSON(filePath, defaultValue): rf is the set of paths for which      *)
(* fs.readFileSync or JSON.parse raises this time; the result is an        *)
(* optional value (<<>> = default null)                                    *)
loadJSON(d, filePath, defaultValue, rf) ==
  IF filePath \in DOMAIN d /\ filePath \notin rf
  THEN <<d[filePath].val>>
  ELSE defaultValue

(* A save that writes nothing *)
saveJSONDropped(d, filePath, obj, wf) == d

(* saveJSON(filePath, obj): wf is the set of paths whose write raises *)
saveJSON(d, filePath, obj, wf) ==
  IF filePath \in wf
  THEN d
  ELSE [p \in DOMAIN d \cup {filePath} |->
          IF p = filePath THEN File(obj) ELSE d[p]]

(* p.id.user: the part of a contact id before '@' *)
RECURSIVE userOf(_)
userOf(s) ==
  IF s = <<>> \/ Head(s) = "@" THEN <<>> ELSE <<Head(s)>> \o userOf(Tail(s))

(* A load that keeps every participant *)
withoutMeUnfiltered(ps) == ps

(* participants.filter(p => p.id !== myId) *)
RECURSIVE withoutMe(_)
withoutMe(ps) ==
  IF ps = <<>> THEN <<>>
  ELSE IF Head(ps) = MyId THEN withoutMe(Tail(ps))
       ELSE <<Head(ps)>> \o withoutMe(Tail(ps))

(* The participants.map callback of loadGroupAndMembersState, one member   *)
(* after the other: acc is [disk, members], t is Date.now()                *)
RECURSIVE loadMembers(_, _, _, _, _, _)
loadMembers(acc, dir, ps, rf, wf, t) ==
  IF ps = <<>> THEN acc
  ELSE LET memberId == Head(ps)
           memberFile == memberFileOf(dir, memberId)
           existing == loadJSON(acc.disk, memberFile, <<>>, rf)
           state == IF existing # <<>> THEN existing[1]
                    ELSE defaultMemberState(memberId, userOf(memberId), t)
           d2 == IF existing = <<>>
                 THEN saveJSON(acc.disk, memberFile, state, wf)
                 ELSE acc.disk
       IN  loadMembers([disk |-> d2, members |-> Append(acc.members, state)],
                       dir, Tail(ps), rf, wf, t)

(* loadGroupAndMembersState(chat), called when Date.now() is t *)
loadGroupAndMembersState(d, chatId, rf, wf, t) ==
  LET dir == getGroupDir(chatId)
      groupFile == groupFileOf(dir)
      groupState == loadJSON(d, groupFile, <<defaultGroupState(t)>>, rf)[1]
      m == loadMembers([disk |-> d, members |-> <<>>], dir,
                       withoutMe(participantsOf(chatId)), rf, wf, t)
  IN  [groupState |-> groupState, members |-> m.members, groupDir |-> dir,
       disk |-> saveJSON(m.disk, groupFile, groupState, wf)]

(* A loop that ends at the first entry it skips *)
RECURSIVE persistMembersUntilSkip(_, _, _, _)
persistMembersUntilSkip(d, groupDir, ms, wf) ==
  IF ms = <<>> \/ Head(ms) = NullEntry \/ Head(ms).id = <<>> THEN d
  ELSE persistMembersUntilSkip(
         saveJSON(d, memberFileOf(groupDir, Head(ms).id), Head(ms), wf),
         groupDir, Tail(ms), wf)

(* updated.members.forEach(m => { if (!m || !m.id) return; ... }) of       *)
(* persistUpdatedStates                                                    *)
RECURSIVE persistMembers(_, _, _, _)
persistMembers(d, groupDir, ms, wf) ==
  IF ms = <<>> THEN d
  ELSE LET m == Head(ms)
           d2 == IF m = NullEntry \/ m.id = <<>> THEN d
                 ELSE saveJSON(d, memberFileOf(groupDir, m.id), m, wf)
       IN  persistMembers(d2, groupDir, Tail(ms), wf)

(* persistUpdatedStates(groupDir, updated): updated is optional, and so    *)
(* are its group and its members                                           *)
persistUpdatedStates(d, groupDir, updated, wf) ==
  IF updated = <<>> THEN d
  ELSE LET u == updated[1]
           d2 == IF u.group # <<>>
                 THEN saveJSON(d, groupFileOf(groupDir), u.group[1], wf)
                 ELSE d
       IN  IF u.members # <<>>
           THEN persistMembers(d2, groupDir, u.members[1], wf)
           ELSE d2

----------------------------------------------------------------------------
(* The response of the n8n webhook.  A JavaScript value that the code      *)
(* tests with typeof is [type, str]; str is the text of a string.          *)

Str(s) == [type |-> "string", str |-> s]

Undefined == [type |-> "undefined", str |-> <<>>]

Number5 == [type |-> "number", str |-> <<>>]

TxtGoa == <<"G", "o", "a">>

TxtSkipPadded == <<" ", "S", "k", "i", "p", " ">>

TxtSkipIt == <<"S", "k", "i", "p", " ", "i", "t">>

TxtBlank == <<" ">>

Responses ==
  {Str(TxtGoa), Str(Skip), Str(TxtSkipPadded), Str(TxtSkipIt), Str(TxtBlank),
   Str(<<>>), Number5, Undefined}

UpdGroup == [group |-> <<GoaGroup>>, members |-> <<>>]

UpdMembers == [group |-> <<>>, members |-> << <<NoIdMember, PlannerM1>> >>]

Updates == {<<>>, <<UpdGroup>>, <<UpdMembers>>}

(* { response: R, updated: U } *)
Bare(R, U) == [response |-> R, updated |-> U, output |-> <<>>]

(* { output: { response: R, updated: U } } *)
Wrapped(R, U) ==
  [response |-> Undefined, updated |-> <<>>,
   output |-> <<[response |-> R, updated |-> U]>>]

(* { output: { response: R }, updated: U } *)
Mixed(R, U) ==
  [response |-> Undefined, updated |-> U,
   output |-> <<[response |-> R, updated |-> <<>>]>>]

(* Every response without updates, and a reply and a skip with each update *)
Contents ==
  {<<R, <<>> >> : R \in Responses}
    \cup {<<R, U>> : R \in {Str(TxtGoa), Str(Skip)}, U \in Updates}

Envelopes ==
  {Bare(x[1], x[2]) : x \in Contents}
    \cup {Wrapped(x[1], x[2]) : x \in Contents}
    \cup {Mixed(x[1], x[2]) : x \in Contents}

(* What axios.post ends with: a rejection (network error, timeout, non-2xx *)
(* status), or a body that is an object, a JSON text or another text       *)
HttpOutcomes ==
  {[kind |-> "error", env |-> Bare(Undefined, <<>>)],
   [kind |-> "text", env |-> Bare(Undefined, <<>>)]}
    \cup {[kind |-> k, env |-> e] : k \in {"object", "json"}, e \in Envelopes}

(* sendToN8n(payload): res.data, or <<>> (null) when axios.post rejects *)
sendToN8n(outcome) == IF outcome.kind = "error" THEN <<>> ELSE <<outcome>>

(* A normalisation that keeps a body whose parse failed *)
parseDataUnchecked(res) == IF res = <<>> THEN <<>> ELSE <<res[1].env>>

(* typeof data === 'string' ? JSON.parse(data), null when it throws : data *)
parseData(res) ==
  IF res = <<>> THEN <<>>
  ELSE IF res[1].kind = "text" THEN <<>> ELSE <<res[1].env>>

(* The reply decision on responseText: "skip", "post" or "none" *)
chatAction(responseText) ==
  IF responseText.type = "string" /\ toLowerCase(trim(responseText.str)) = Skip
  THEN "skip"
  ELSE IF responseText.type = "string" /\ Len(trim(responseText.str)) > 0
       THEN "post"
       ELSE "none"

----------------------------------------------------------------------------
(* The batcher: client.on('message') and the callback of its setTimeout    *)

(* msg._data?.notifyName || null of event n: the authors of the odd events *)
(* have a name, the others none                                            *)
notifyName(n) == IF n % 2 = 1 THEN <<"A">> ELSE <<>>

(* The entry pushed on messageBuffer.  body is the number of the event and *)
(* timestamp the time since the window opened; the fields from, chatId,    *)
(* isGroupMsg, author and msgObj are written and never read                *)
bufferEntry(n, t) ==
  [body |-> n, senderName |-> notifyName(n), timestamp |-> t]

(* A handler without the test: every message starts a timer *)
startsTimerAlways(handle) == TRUE

(* if (!bufferTimer): whether the handler starts a timer *)
startsTimer(handle) == handle = NoTimer

(* A sliding window: a message in an open window restarts its timeout *)
timersRestarted(handle, ts, n) ==
  IF startsTimer(handle)
  THEN Append(ts, [remaining |-> batchWindowMs, opener |-> n])
  ELSE [i \in 1..Len(ts) |-> [ts[i] EXCEPT !.remaining = batchWindowMs]]

(* A handler that schedules a timeout for every message *)
timersPerMessage(handle, ts, n) ==
  Append(ts, [remaining |-> batchWindowMs, opener |-> n])

(* The host's pending timeouts after the handler ran for event n: a        *)
(* timeout is its remaining delay and the event that scheduled it          *)
timersAfterMessage(handle, ts, n) ==
  IF startsTimer(handle)
  THEN Append(ts, [remaining |-> batchWindowMs, opener |-> n])
  ELSE ts

(* A payload of the newest message only *)
payloadMessagesLast(buf) ==
  IF buf = <<>> THEN <<>>
  ELSE <<[message |-> buf[Len(buf)].body,
          senderName |-> buf[Len(buf)].senderName]>>

(* messageBuffer.map(m => ({ message: m.body, senderName: m.senderName })) *)
payloadMessages(buf) ==
  [i \in 1..Len(buf) |->
     [message |-> buf[i].body, senderName |-> buf[i].senderName]]

RemoveAt(seq, i) == SubSeq(seq, 1, i - 1) \o SubSeq(seq, i + 1, Len(seq))

(* A callback: where it is suspended, what it holds, and what it did.      *)
(*   batch, opener, last, firedAt, diskBefore: the buffer, the event that  *)
(*     started the timer, the last event, the time and the disk at expiry  *)
(*   messages, groupDir, groupId, group, members: the payload              *)
(*   readFailed: the reads that raised in loadGroupAndMembersState         *)
(*   requests, http, data: the axios.post calls, how the call ended and    *)
(*     the data after parsing (<<>> = null)                                *)
(*   applied, persistFailed: persistUpdatedStates was called; its writes   *)
(*     that raised                                                         *)
(*   postTo, postText, posts: the pending and the delivered chat messages  *)
(*   raised: the expression whose error left the callback, or "none"       *)
NoCycle ==
  [pc |-> "none", batch |-> <<>>, opener |-> 0, last |-> 0, firedAt |-> 0,
   diskBefore |-> <<>>, messages |-> <<>>, chatArg |-> <<>>,
   groupDir |-> <<>>, groupId |-> <<>>, group |-> <<>>, members |-> <<>>,
   readFailed |-> {}, diskSent |-> <<>>, requests |-> 0, http |-> "none",
   data |-> <<>>, applied |-> FALSE, persistFailed |-> {},
   postTo |-> <<>>, postText |-> <<>>, posts |-> <<>>, raised |-> "none"]

(* client.on('message', async msg => ...) *)
OnMessage(from) ==
  /\ arrived < MaxMsgs
  /\ startsTimer(bufferTimer) => started + Len(timers) < MaxCycles
  /\ arrived' = arrived + 1
  /\ clock' = IF timers = <<>> THEN 0 ELSE clock
  /\ lastGroupChatId' =
       IF endsWith(from, GroupSuffix) THEN from ELSE lastGroupChatId
  /\ messageBuffer' =
       Append(messageBuffer, bufferEntry(arrived + 1, clock'))
  /\ bufferTimer' = IF startsTimer(bufferTimer) THEN Handle ELSE bufferTimer
  /\ timers' = timersAfterMessage(bufferTimer, timers, arrived + 1)
  /\ finished' = NoCycle
  /\ UNCHANGED <<cycles, disk, started, now, storeVars>>

(* The seconds after the opening of a window at which the model looks at  *)
(* the program, besides the opening itself and the expiry of a timeout     *)
Instants == {3, 9}

(* The time to the next instant, or to the next expiry if that is sooner *)
waitFrom(t, remaining) ==
  LET next == {x - t : x \in {y \in Instants : y > t}} \cup remaining
  IN  CHOOSE d \in next : \A e \in next : d <= e

(* Time passes; a timeout that is due runs before time moves on *)
Tick ==
  /\ timers # <<>>
  /\ \A i \in 1..Len(timers) : timers[i].remaining > 0
  /\ LET d == waitFrom(clock, {timers[i].remaining : i \in 1..Len(timers)})
     IN  /\ timers' = [i \in 1..Len(timers) |->
                         [timers[i] EXCEPT !.remaining = @ - d]]
         /\ clock' = clock + d
  /\ finished' = NoCycle
  /\ UNCHANGED <<lastGroupChatId, messageBuffer, bufferTimer, cycles, disk,
                 arrived, started, now, storeVars>>

(* A callback that skips its clean-up when an error leaves it *)
FinallyUnlessRaised(i, c) ==
  /\ messageBuffer' = IF c.raised = "none" THEN <<>> ELSE messageBuffer
  /\ bufferTimer' = IF c.raised = "none" THEN NoTimer ELSE bufferTimer
  /\ cycles' = RemoveAt(cycles, i)
  /\ finished' = [c EXCEPT !.pc = "done"]

(* A clean-up that empties the buffer and leaves the timer handle *)
FinallyKeepsHandle(i, c) ==
  /\ messageBuffer' = <<>>
  /\ bufferTimer' = bufferTimer
  /\ cycles' = RemoveAt(cycles, i)
  /\ finished' = [c EXCEPT !.pc = "done"]

(* A callback that keeps the batch of a failed request for the next cycle *)
FinallyKeepsFailed(i, c) ==
  /\ messageBuffer' = IF c.requests = 1 /\ c.http \in {"error", "text"}
                       THEN messageBuffer ELSE <<>>
  /\ bufferTimer' = NoTimer
  /\ cycles' = RemoveAt(cycles, i)
  /\ finished' = [c EXCEPT !.pc = "done"]

(* finally { messageBuffer = []; bufferTimer = null; } after which the     *)
(* callback c, at position i, is over                                      *)
Finally(i, c) ==
  /\ messageBuffer' = <<>>
  /\ bufferTimer' = NoTimer
  /\ cycles' = RemoveAt(cycles, i)
  /\ finished' = [c EXCEPT !.pc = "done"]

(* The timeout expires: the callback runs up to its first await, which is  *)
(* client.getChatById, or axios.post when no group chat is known           *)
TimerFire(i) ==
  /\ timers[i].remaining = 0
  /\ timers' = RemoveAt(timers, i)
  /\ started' = started + 1
  /\ now' = now + 1
  /\ LET c == [NoCycle EXCEPT !.batch = messageBuffer,
                              !.opener = timers[i].opener,
                              !.last = arrived,
                              !.firedAt = clock,
                              !.diskBefore = disk,
                              !.messages = payloadMessages(messageBuffer)]
     IN  cycles' = Append(cycles,
           IF lastGroupChatId # <<>>
           THEN [c EXCEPT !.pc = "lookup", !.chatArg = lastGroupChatId]
           ELSE [c EXCEPT !.pc = "http", !.requests = 1, !.diskSent = disk])
  /\ finished' = NoCycle
  /\ UNCHANGED <<lastGroupChatId, messageBuffer, bufferTimer, clock, disk,
                 arrived, storeVars>>

(* The files loadGroupAndMembersState reads and writes for a chat *)
filesOf(chatId) ==
  {groupFileOf(getGroupDir(chatId))}
    \cup {memberFileOf(getGroupDir(chatId), withoutMe(participantsOf(chatId))[k]) :
            k \in 1..Len(withoutMe(participantsOf(chatId)))}

(* The storage failures of one step: the read or the parse of at most one  *)
(* file (of the files that exist, which are the ones read) raises,         *)
(* and the writes succeed or (disk full, read-only directory) all raise    *)
ReadFailures(files) == {{}} \cup {{f} : f \in files}

WriteFailures(files) == {{}, files}

(* client.getChatById rejects: the error leaves the callback *)
LookupFails(i) ==
  /\ cycles[i].pc = "lookup"
  /\ Finally(i, [cycles[i] EXCEPT !.raised = "getChatById"])
  /\ UNCHANGED <<lastGroupChatId, timers, clock, disk, arrived, started, now,
                 storeVars>>

(* client.getChatById resolves, but getGroupDir raises (fs.mkdirSync) *)
LoadFails(i) ==
  /\ cycles[i].pc = "lookup"
  /\ Finally(i, [cycles[i] EXCEPT !.raised = "getGroupDir",
                                  !.groupId = cycles[i].chatArg])
  /\ UNCHANGED <<lastGroupChatId, timers, clock, disk, arrived, started, now,
                 storeVars>>

(* client.getChatById resolves: load the state, build the payload and      *)
(* start axios.post                                                        *)
LookupDone(i) ==
  /\ cycles[i].pc = "lookup"
  /\ \E rf \in ReadFailures(filesOf(cycles[i].chatArg) \cap DOMAIN disk),
        wf \in WriteFailures(filesOf(cycles[i].chatArg)) :
       LET s == loadGroupAndMembersState(disk, cycles[i].chatArg, rf, wf, now)
       IN  /\ disk' = s.disk
           /\ cycles' = [cycles EXCEPT ![i] =
                [@ EXCEPT !.pc = "http", !.groupDir = s.groupDir,
                          !.groupId = cycles[i].chatArg,
                          !.group = <<s.groupState>>,
                          !.members = s.members, !.readFailed = rf,
                          !.requests = @ + 1, !.diskSent = s.disk]]
  /\ finished' = NoCycle
  /\ UNCHANGED <<lastGroupChatId, messageBuffer, bufferTimer, timers, clock,
                 arrived, started, now, storeVars>>

(* data.updated, the argument of persistUpdatedStates *)
updatedOf(data) == data.updated

(* data.output.response: <<>> when reading it raises a TypeError because   *)
(* data.output is undefined                                                *)
responseOf(data) ==
  IF data.output = <<>> THEN <<>> ELSE <<data.output[1].response>>

(* The files persistUpdatedStates writes: none without a group directory *)
persistFilesOf(groupDir, updated) ==
  IF groupDir = <<>> \/ updated = <<>> THEN {}
  ELSE (IF updated[1].group # <<>> THEN {groupFileOf(groupDir)} ELSE {})
         \cup (IF updated[1].members = <<>> THEN {}
               ELSE {memberFileOf(groupDir, updated[1].members[1][k].id) :
                       k \in {j \in 1..Len(updated[1].members[1]) :
                                updated[1].members[1][j].id # <<>>}})

(* How axios.post ended: "error", "text" (a body that does not parse) or   *)
(* "body"                                                                  *)
httpResult(o) == IF o.kind \in {"object", "json"} THEN "body" ELSE o.kind

(* axios.post settles: normalise the data, persist the updated states and  *)
(* decide the reply, up to the await of client.sendMessage                 *)
HttpDone(i) ==
  /\ cycles[i].pc = "http"
  /\ \E o \in HttpOutcomes :
       LET data == parseData(sendToN8n(o))
           c == [cycles[i] EXCEPT !.data = data, !.http = httpResult(o)]
       IN  IF data = <<>>
           THEN Finally(i, c) /\ UNCHANGED disk
           ELSE \E wf \in WriteFailures(
                          persistFilesOf(c.groupDir, updatedOf(data[1]))) :
                LET c1 == [c EXCEPT !.applied = (c.groupDir # <<>>),
                                    !.persistFailed = wf]
                    r == responseOf(data[1])
                IN  /\ disk' = IF c.groupDir # <<>>
                               THEN persistUpdatedStates(disk, c.groupDir,
                                      updatedOf(data[1]), wf)
                               ELSE disk
                    /\ IF lastGroupChatId = <<>>
                       THEN Finally(i, c1)
                       ELSE IF r = <<>>
                       THEN Finally(i, [c1 EXCEPT !.raised = "data.output.response"])
                       ELSE IF chatAction(r[1]) = "post"
                       THEN /\ cycles' = [cycles EXCEPT ![i] =
                                 [c1 EXCEPT !.pc = "posting",
                                            !.postTo = lastGroupChatId,
                                            !.postText = r[1].str]]
                            /\ finished' = NoCycle
                            /\ UNCHANGED <<messageBuffer, bufferTimer>>
                       ELSE Finally(i, c1)
  /\ UNCHANGED <<lastGroupChatId, timers, clock, arrived, started, now,
                 storeVars>>

(* client.sendMessage resolves: the reply is in the chat *)
PostDone(i) ==
  /\ cycles[i].pc = "posting"
  /\ Finally(i, [cycles[i] EXCEPT !.posts =
       Append(@, [to |-> cycles[i].postTo, text |-> cycles[i].postText])])
  /\ UNCHANGED <<lastGroupChatId, timers, clock, disk, arrived, started, now,
                 storeVars>>

(* client.sendMessage rejects: the error leaves the callback *)
PostFails(i) ==
  /\ cycles[i].pc = "posting"
  /\ Finally(i, [cycles[i] EXCEPT !.raised = "sendMessage"])
  /\ UNCHANGED <<lastGroupChatId, timers, clock, disk, arrived, started, now,
                 storeVars>>

(* A call of a state store function: its arguments (chat, updated), the    *)
(* storage failures during it, the files before it, when it ran and what   *)
(* it returned                                                             *)
NoCall ==
  [op |-> "none", chat |-> <<>>, updated |-> <<>>, readFailed |-> {},
   writeFailed |-> {}, diskBefore |-> <<>>, at |-> 0, groupDir |-> <<>>,
   group |-> <<>>, members |-> <<>>]

----------------------------------------------------------------------------
(* The program after construction.  data/groups holds the records of group *)
(* G1 from an earlier run and nothing of group G2.                         *)

InitDisk ==
  (groupFileOf(getGroupDir(G1)) :> File(StoredGroup))
    @@ (memberFileOf(getGroupDir(G1), M1) :> File(StoredM1))

Init ==
  /\ lastGroupChatId = <<>>
  /\ messageBuffer = <<>>
  /\ bufferTimer = NoTimer
  /\ timers = <<>>
  /\ clock = 0
  /\ cycles = <<>>
  /\ disk = InitDisk
  /\ arrived = 0
  /\ started = 0
  /\ finished = NoCycle
  /\ now = 0
  /\ call = NoCall
  /\ prev = NoCall

CycleStep(i) ==
  \/ LookupFails(i)
  \/ LoadFails(i)
  \/ LookupDone(i)
  \/ HttpDone(i)
  \/ PostDone(i)
  \/ PostFails(i)

Next ==
  \/ \E from \in Senders : OnMessage(from)
  \/ Tick
  \/ \E i \in 1..Len(timers) : TimerFire(i)
  \/ \E i \in 1..Len(cycles) : CycleStep(i)

Spec == Init /\ [][Next]_vars

(* Every await of a callback settles: axios.post within its timeout, and   *)
(* the promises of the chat client                                         *)
SpecLive ==
  /\ Spec
  /\ WF_vars(\E i \in 1..Len(cycles) : CycleStep(i))

----------------------------------------------------------------------------
(* The state store on its own: loadGroupAndMembersState and                *)
(* persistUpdatedStates called one after the other, as the callbacks of    *)
(* successive windows call them, for the chats G1, G2 and G3.              *)

mainVars ==
  <<lastGroupChatId, messageBuffer, bufferTimer, timers, clock, cycles,
    arrived, started, finished>>

StoreChats == {G1, G2, G3}

UpdNull == [group |-> <<>>, members |-> << <<NullEntry, PlannerM1>> >>]

(* An entry of updated.members whose id is "group" *)
GroupIdMember ==
  [id |-> <<"g", "r", "o", "u", "p">>, name |-> <<>>, destination |-> "absent",
   consensus |-> "absent", role |-> "logistics", lastUpdated |-> 0]

UpdGroupId == [group |-> <<>>, members |-> << <<GroupIdMember>> >>]

(* Two entries for the same member *)
UpdTwice == [group |-> <<>>, members |-> << <<PlannerM1, StoredM1>> >>]

StoreUpdates == Updates \cup {<<UpdNull>>, <<UpdTwice>>, <<UpdGroupId>>}

(* loadGroupAndMembersState(chat) for the chat with id chatId *)
StoreLoad(chatId) ==
  /\ now <= MaxOps
  /\ \E rf \in ReadFailures(filesOf(chatId) \cap DOMAIN disk),
        wf \in WriteFailures(filesOf(chatId)) :
       LET s == loadGroupAndMembersState(disk, chatId, rf, wf, now)
       IN  /\ disk' = s.disk
           /\ call' = [NoCall EXCEPT !.op = "load", !.chat = chatId,
                                     !.readFailed = rf, !.writeFailed = wf,
                                     !.diskBefore = disk, !.at = now,
                                     !.groupDir = s.groupDir,
                                     !.group = <<s.groupState>>,
                                     !.members = s.members]
  /\ prev' = call
  /\ now' = now + 1
  /\ UNCHANGED mainVars

(* persistUpdatedStates(groupDir, updated) for the directory of chatId *)
StoreApply(chatId, updated) ==
  /\ now <= MaxOps
  /\ \E wf \in WriteFailures(persistFilesOf(getGroupDir(chatId), updated)) :
       /\ disk' = persistUpdatedStates(disk, getGroupDir(chatId), updated, wf)
       /\ call' = [NoCall EXCEPT !.op = "apply", !.chat = chatId,
                                 !.updated = updated, !.writeFailed = wf,
                                 !.diskBefore = disk, !.at = now,
                                 !.groupDir = getGroupDir(chatId)]
  /\ prev' = call
  /\ now' = now + 1
  /\ UNCHANGED mainVars

StoreInit ==
  /\ lastGroupChatId = <<>>
  /\ messageBuffer = <<>>
  /\ bufferTimer = NoTimer
  /\ timers = <<>>
  /\ clock = 0
  /\ cycles = <<>>
  /\ disk = InitDisk
  /\ arrived = 0
  /\ started = 0
  /\ finished = NoCycle
  /\ now = 1
  /\ call = NoCall
  /\ prev = NoCall

StoreNext ==
  \/ \E chatId \in StoreChats : StoreLoad(chatId)
  \/ \E chatId \in StoreChats, updated \in StoreUpdates :
       StoreApply(chatId, updated)

SpecStore == StoreInit /\ [][StoreNext]_vars

----------------------------------------------------------------------------
(* getGroupDir on its own, for every identifier of at most MaxIdLen        *)
(* characters of IdChars                                                   *)

IdChars == {"a", "Z", "7", "_", ".", "-", "@", "/", " "}

IdStrings == UNION {[1..n -> IdChars] : n \in 0..MaxIdLen}

(* getGroupDir(groupId), and once more for the name it returned *)
GetGroupDir ==
  /\ call.op \in {"input", "getGroupDir"}
  /\ call' = [call EXCEPT !.op = IF @ = "input" THEN "getGroupDir" ELSE "again",
                          !.chat = IF call.op = "input" THEN @ ELSE call.groupDir,
                          !.groupDir = getGroupDir(
                             IF call.op = "input" THEN call.chat
                             ELSE call.groupDir)]
  /\ prev' = call
  /\ UNCHANGED <<mainVars, disk, now>>

IdsInit ==
  /\ lastGroupChatId = <<>>
  /\ messageBuffer = <<>>
  /\ bufferTimer = NoTimer
  /\ timers = <<>>
  /\ clock = 0
  /\ cycles = <<>>
  /\ disk = InitDisk
  /\ arrived = 0
  /\ started = 0
  /\ finished = NoCycle
  /\ now = 1
  /\ call \in {[NoCall EXCEPT !.op = "input", !.chat = s] : s \in IdStrings}
  /\ prev = NoCall

SpecIds == IdsInit /\ [][GetGroupDir]_vars

----------------------------------------------------------------------------
(* Properties *)

(* The callbacks that are running or have just completed *)
Callbacks ==
  {cycles[i] : i \in 1..Len(cycles)}
    \cup (IF finished.pc = "done" THEN {finished} ELSE {})

(* C1: at most one timeout is pending or one callback is running, never    *)
(* both, and while there is one the timer handle is set, so that a message *)
(* that arrives then starts no second timer.                               *)
C1_OneTimerOneCycle ==
  /\ Len(timers) + Len(cycles) <= 1
  /\ Len(timers) + Len(cycles) = 1 => bufferTimer # NoTimer

(* A message arrived while the callback was running and started no timer *)
C1_Witness ==
  /\ Len(cycles) = 1
  /\ timers = <<>>
  /\ messageBuffer # <<>>
  /\ messageBuffer[Len(messageBuffer)].body > cycles[1].last

bodiesOf(msgs) == [k \in 1..Len(msgs) |-> msgs[k].message]

(* The events from the one that started the timer to the last one before   *)
(* the expiry, in arrival order                                            *)
windowOf(c) == [k \in 1..(c.last - c.opener + 1) |-> c.opener + k - 1]

(* C2 as stated: the payload built at expiry holds exactly the messages of *)
(* the window, in arrival order, and one request is issued for it.         *)
C2_DeliveredExactlyOnce ==
  \A c \in Callbacks :
    /\ bodiesOf(c.messages) = windowOf(c)
    /\ c.pc = "done" => c.requests = 1

(* C2 amended: the payload built at expiry holds exactly the messages of   *)
(* the window, in arrival order; one request is issued for it, and none    *)
(* when the chat lookup or the state load raised.                          *)
C2_DeliveredAtMostOnce ==
  \A c \in Callbacks :
    /\ bodiesOf(c.messages) = windowOf(c)
    /\ c.requests <= 1
    /\ c.pc = "done" =>
         c.requests = IF c.raised \in {"getChatById", "getGroupDir"}
                      THEN 0 ELSE 1

(* A batch of several messages was sent, once, and answered *)
C2_Witness ==
  /\ finished.pc = "done"
  /\ Len(finished.messages) >= 2
  /\ finished.requests = 1
  /\ finished.http = "body"

(* C3: the window is fixed.  A pending timeout expires batchWindowMs after *)
(* the message that opened the window, whatever arrived meanwhile, and     *)
(* every payload is built at that time.                                    *)
C3_FixedWindow ==
  /\ \A i \in 1..Len(timers) : clock + timers[i].remaining = batchWindowMs
  /\ \A c \in Callbacks : c.firedAt = batchWindowMs

(* Messages at 0, 3 and 9 seconds: one payload with all three at 10 *)
C3_Witness ==
  /\ finished.pc = "done"
  /\ [k \in 1..Len(finished.batch) |-> finished.batch[k].timestamp] = <<0, 3, 9>>
  /\ Len(finished.messages) = 3
  /\ finished.firedAt = 10
  /\ finished.requests = 1

(* The callback sent its request and got no data *)
CallFailed(c) == c.pc = "done" /\ c.requests = 1 /\ c.http \in {"error", "text"}

(* C4 as stated: a failed orchestrator call leaves the files as they were  *)
(* when the timer fired.                                                   *)
C4_NoRecordModified ==
  CallFailed(finished) => disk = finished.diskBefore

defaultFiles(chatId, t) ==
  {<<groupFileOf(getGroupDir(chatId)), File(defaultGroupState(t))>>}
    \cup {<<memberFileOf(getGroupDir(chatId), m),
            File(defaultMemberState(m, userOf(m), t))>> :
            m \in {withoutMe(participantsOf(chatId))[k] :
                     k \in 1..Len(withoutMe(participantsOf(chatId)))}}

(* C4 amended: after a failed orchestrator call no record is gone, and a   *)
(* record differs from what it was when the timer fired only if it is a    *)
(* record of the target group or of one of its members that was absent or  *)
(* could not be read or parsed, and then it holds the defaults.            *)
C4_OnlyDefaultsCreated ==
  CallFailed(finished) =>
    /\ DOMAIN finished.diskBefore \subseteq DOMAIN disk
    /\ \A p \in DOMAIN disk :
         \/ p \in DOMAIN finished.diskBefore /\ disk[p] = finished.diskBefore[p]
         \/ /\ finished.groupId # <<>>
            /\ <<p, disk[p]>> \in defaultFiles(finished.groupId, now)
            /\ \/ p \notin DOMAIN finished.diskBefore
               \/ p \in finished.readFailed

(* The call failed for a group that had no record: now it has defaults,    *)
(* while the stored records of the other group are as they were            *)
C4_Witness ==
  /\ CallFailed(finished)
  /\ finished.groupId = G2
  /\ memberFileOf(getGroupDir(G2), M2) \notin DOMAIN finished.diskBefore
  /\ memberFileOf(getGroupDir(G2), M2) \in DOMAIN disk
  /\ groupFileOf(getGroupDir(G1)) \in DOMAIN disk

(* C5: a callback whose orchestrator call yields no data (axios.post       *)
(* rejected, or a text body that does not parse) posts nothing and applies *)
(* no updates: the files stay as they were when the request was sent.      *)
C5_NoDataNoEffect ==
  \A c \in Callbacks :
    c.http \in {"error", "text"} =>
      /\ c.pc = "done"
      /\ c.posts = <<>>
      /\ ~c.applied
      /\ disk = c.diskSent

(* A text body that does not parse came back for a loaded group *)
C5_Witness ==
  /\ finished.pc = "done"
  /\ finished.http = "text"
  /\ finished.groupDir # <<>>
  /\ finished.posts = <<>>

Idle == cycles = <<>> /\ messageBuffer = <<>> /\ bufferTimer = NoTimer

(* C6: every callback that starts ends, and leaves the batcher idle: no    *)
(* timer handle and an empty buffer, whatever raised.                      *)
C6_BackToIdle == (cycles # <<>>) ~> Idle

(* A callback that an error left has just ended, and the batcher is idle *)
C6_Witness ==
  /\ finished.pc = "done"
  /\ finished.raised # "none"
  /\ Len(finished.batch) >= 2
  /\ Idle

(* The texts of the delivered replies *)
textsOf(posts) == [k \in 1..Len(posts) |-> posts[k].text]

(* C7: after { response: R, updated: { group: G } } for a loaded group,    *)
(* with R a reply, the stored group record is G and R is posted (unless    *)
(* the write or client.sendMessage itself failed).                         *)
C7_BareEnvelopeApplied ==
  /\ finished.pc = "done"
  /\ finished.data = <<Bare(Str(TxtGoa), <<UpdGroup>>)>>
  /\ finished.groupDir # <<>>
  /\ finished.persistFailed = {}
  /\ finished.raised # "sendMessage"
  => /\ disk[groupFileOf(finished.groupDir)] = File(GoaGroup)
     /\ textsOf(finished.posts) = <<TxtGoa>>

(* C8: { output: { response: R, updated: U } } is treated like the bare    *)
(* envelope: U is applied and R is posted.                                 *)
C8_WrappedEnvelopeApplied ==
  /\ finished.pc = "done"
  /\ finished.data = <<Wrapped(Str(TxtGoa), <<UpdGroup>>)>>
  /\ finished.groupDir # <<>>
  /\ finished.persistFailed = {}
  /\ finished.raised # "sendMessage"
  => /\ disk[groupFileOf(finished.groupDir)] = File(GoaGroup)
     /\ textsOf(finished.posts) = <<TxtGoa>>

(* The response of an envelope, bare or under output *)
envelopeResponse(e) ==
  IF e.output # <<>> THEN e.output[1].response ELSE e.response

(* C9: the chat action depends only on the response: a string that is not  *)
(* empty after trimming and is not "skip" in any case is posted verbatim   *)
(* once, and anything else posts nothing (a group chat being known and     *)
(* client.sendMessage not failing).                                        *)
C9_ReplyDecision ==
  /\ finished.pc = "done"
  /\ finished.data # <<>>
  /\ lastGroupChatId # <<>>
  /\ finished.raised # "sendMessage"
  => LET R == envelopeResponse(finished.data[1])
     IN  textsOf(finished.posts) =
           IF /\ R.type = "string"
              /\ trim(R.str) # <<>>
              /\ toLowerCase(trim(R.str)) # Skip
           THEN <<R.str>>
           ELSE <<>>

(* C10: a callback that loaded the state of a group into its payload, and *)
(* writes the updates to that group's records, posts its reply to that     *)
(* group's chat.                                                           *)
C10_ReplyToLoadedChat ==
  \A c \in Callbacks :
    c.groupDir # <<>> =>
      \A k \in 1..Len(c.posts) : c.posts[k].to = c.groupId

(* The updates of an envelope, bare or under output *)
envelopeUpdated(e) ==
  IF e.output # <<>> /\ e.output[1].updated # <<>>
  THEN e.output[1].updated ELSE e.updated

(* The records an update object asks to store *)
entriesOf(updated) ==
  (IF updated[1].group # <<>> THEN {updated[1].group[1]} ELSE {})
    \cup (IF updated[1].members = <<>> THEN {}
          ELSE {updated[1].members[1][k] : k \in 1..Len(updated[1].members[1])})

(* The callback tried to post: the post is delivered or sendMessage raised *)
PostAttempted(c) == c.posts # <<>> \/ c.raised = "sendMessage"

(* C11: for a response envelope of a loaded group, with a known group      *)
(* chat, the two effects are independent: if the envelope has updates,     *)
(* each of their records is stored or its write was tried and failed, also *)
(* when the post then fails; and if the response is a reply its post is    *)
(* tried, also when the writes failed.                                     *)
C11_EffectsIndependent ==
  /\ finished.pc = "done"
  /\ finished.data # <<>>
  /\ finished.groupDir # <<>>
  /\ lastGroupChatId # <<>>
  => LET U == envelopeUpdated(finished.data[1])
         R == envelopeResponse(finished.data[1])
     IN  /\ U # <<>> =>
               \A p \in persistFilesOf(finished.groupDir, U) :
                 \/ p \in finished.persistFailed
                 \/ p \in DOMAIN disk /\ disk[p].val \in entriesOf(U)
         /\ chatAction(R) = "post" => PostAttempted(finished)

(* C12: no failure leaves a callback as an error: every callback ends      *)
(* without having raised.                                                  *)
C12_NoFailureEscapes ==
  \A c \in Callbacks : c.raised = "none"

(* C20: a callback issues at most one request; when its request failed the *)
(* batch is gone with the callback (the buffer is empty, no timer handle   *)
(* is left), and every payload and every open window holds only messages   *)
(* from the one that opened its own window on, none of an earlier batch.   *)
C20_NoRetry ==
  /\ \A c \in Callbacks :
       /\ c.requests <= 1
       /\ \A k \in 1..Len(c.messages) :
            c.messages[k].message \in c.opener..c.last
       /\ c.opener + Len(c.messages) - 1 = c.last
  /\ \A i \in 1..Len(timers) :
       \A k \in 1..Len(messageBuffer) :
         messageBuffer[k].body >= timers[i].opener
  /\ CallFailed(finished) =>
       messageBuffer = <<>> /\ bufferTimer = NoTimer /\ timers = <<>>

(* The request of a second callback failed, as messages arrived while it   *)
(* was pending: its payload began with the opener of its own window, and   *)
(* nothing is left in the buffer                                           *)
C20_Witness ==
  /\ CallFailed(finished)
  /\ finished.http = "error"
  /\ started = 2
  /\ finished.opener = 2
  /\ arrived > finished.last
  /\ messageBuffer = <<>>

(* The group file of the chat of a store call *)
groupFileOfCall(c) == groupFileOf(getGroupDir(c.chat))

(* Two loads in a row of the same group, which had no record before the    *)
(* first one                                                               *)
LoadedTwice ==
  /\ prev.op = "load"
  /\ call.op = "load"
  /\ call.chat = prev.chat
  /\ groupFileOfCall(prev) \notin DOMAIN prev.diskBefore

(* C13 as stated: a load of a group without a record returns a default     *)
(* group state with consensus "unknown" and stores it, and the load that   *)
(* follows returns the same content, timestamps included.                  *)
C13_DefaultPersisted ==
  /\ (call.op = "load" /\ groupFileOfCall(call) \notin DOMAIN call.diskBefore)
       => /\ call.group[1].consensus = "unknown"
          /\ groupFileOfCall(call) \in DOMAIN disk
          /\ disk[groupFileOfCall(call)].val = call.group[1]
  /\ LoadedTwice => call.group = prev.group

(* C13 amended: a load of a group without a record returns a default group *)
(* state with consensus "unknown" and the timestamps of that load, and     *)
(* stores it unless the write fails; the load that follows returns the     *)
(* same content, timestamps included, when that write succeeded and its    *)
(* own read succeeds, and a default with its own timestamps otherwise.     *)
C13_DefaultPersistedUnlessFailed ==
  /\ (call.op = "load" /\ groupFileOfCall(call) \notin DOMAIN call.diskBefore)
       => /\ call.group[1].consensus = "unknown"
          /\ call.group[1].lastUpdated = call.at
          /\ IF groupFileOfCall(call) \in call.writeFailed
             THEN groupFileOfCall(call) \notin DOMAIN disk
             ELSE /\ groupFileOfCall(call) \in DOMAIN disk
                  /\ disk[groupFileOfCall(call)].val = call.group[1]
  /\ LoadedTwice =>
       IF /\ groupFileOfCall(prev) \notin prev.writeFailed
          /\ groupFileOfCall(call) \notin call.readFailed
       THEN call.group = prev.group
       ELSE /\ call.group[1].consensus = "unknown"
            /\ call.group[1].lastUpdated = call.at

(* The second load of group G2 returned the default that the first built *)
C13_Witness ==
  /\ LoadedTwice
  /\ call.chat = G2
  /\ call.at > prev.at
  /\ call.group[1].consensus = "unknown"
  /\ call.group[1].lastUpdated = prev.at

(* The member file of the k-th member that a load call returned *)
memberFileOfCall(c, k) ==
  memberFileOf(c.groupDir, withoutMe(participantsOf(c.chat))[k])

(* C14: a load returns every member that has a record exactly as stored    *)
(* (after the load and the updates before it) and does not rewrite the     *)
(* record; two loads of a group return the same identifiers.               *)
C14_MembersStable ==
  call.op = "load" =>
    /\ \A k \in 1..Len(call.members) :
         memberFileOfCall(call, k) \in DOMAIN call.diskBefore =>
           /\ call.members[k] = call.diskBefore[memberFileOfCall(call, k)].val
           /\ disk[memberFileOfCall(call, k)]
                = call.diskBefore[memberFileOfCall(call, k)]
    /\ (prev.op = "load" /\ prev.chat = call.chat) =>
         [k \in 1..Len(call.members) |-> call.members[k].id]
           = [k \in 1..Len(prev.members) |-> prev.members[k].id]

(* The entries of a members list that carry an id *)
withId(ms) == {k \in 1..Len(ms) : ms[k] # NullEntry /\ ms[k].id # <<>>}

(* The member files that a members list names in directory dir *)
namedFiles(dir, ms) == {memberFileOf(dir, ms[k].id) : k \in withId(ms)}

(* A call of persistUpdatedStates with a members list and no group *)
MembersApplied ==
  /\ call.op = "apply"
  /\ call.updated # <<>>
  /\ call.updated[1].members # <<>>
  /\ call.updated[1].group = <<>>

(* The last entry of a members list with the id of entry k *)
lastWithId(ms, k) ==
  CHOOSE j \in withId(ms) :
    /\ ms[j].id = ms[k].id
    /\ \A i \in withId(ms) : ms[i].id = ms[k].id => i <= j

(* C15 as stated: after applying a members list, the record of each entry  *)
(* with an id is that entry, and every other record is as it was.          *)
C15_MembersReplaced ==
  MembersApplied =>
    LET ms == call.updated[1].members[1]
    IN  /\ \A k \in withId(ms) :
             /\ memberFileOf(call.groupDir, ms[k].id) \in DOMAIN disk
             /\ disk[memberFileOf(call.groupDir, ms[k].id)].val = ms[k]
        /\ DOMAIN disk = DOMAIN call.diskBefore \cup namedFiles(call.groupDir, ms)
        /\ \A p \in DOMAIN call.diskBefore \ namedFiles(call.groupDir, ms) :
             disk[p] = call.diskBefore[p]

(* C15 amended: after applying a members list, the record of each entry    *)
(* with an id whose write did not fail is that entry; entries without id   *)
(* (the last one, of entries with the same id); entries without id and     *)
(* null entries are skipped, and every other record, also the one of an    *)
(* entry whose write failed, is as it was.                                 *)
C15_MembersReplacedUnlessFailed ==
  MembersApplied =>
    LET ms == call.updated[1].members[1]
        written == namedFiles(call.groupDir, ms) \ call.writeFailed
    IN  /\ DOMAIN disk = DOMAIN call.diskBefore \cup written
        /\ \A k \in withId(ms) :
             memberFileOf(call.groupDir, ms[k].id) \in written =>
               disk[memberFileOf(call.groupDir, ms[k].id)].val
                 = ms[lastWithId(ms, k)]
        /\ \A p \in DOMAIN call.diskBefore \ written :
             disk[p] = call.diskBefore[p]

(* A list of a skipped entry and then an entry for M1 was applied to group *)
(* G3, which has records for M1 and M2: M1 is replaced, M2 is as it was    *)
C15_Witness ==
  /\ MembersApplied
  /\ call.chat = G3
  /\ call.writeFailed = {}
  /\ call.updated[1].members[1][1].id = <<>>
  /\ memberFileOf(call.groupDir, M1) \in DOMAIN call.diskBefore
  /\ memberFileOf(call.groupDir, M2) \in DOMAIN call.diskBefore
  /\ disk[memberFileOf(call.groupDir, M1)].val = PlannerM1
  /\ disk[memberFileOf(call.groupDir, M1)]
       # call.diskBefore[memberFileOf(call.groupDir, M1)]
  /\ disk[memberFileOf(call.groupDir, M2)]
       = call.diskBefore[memberFileOf(call.groupDir, M2)]

(* The characters of IdChars that the pattern [A-Za-z0-9_.-] matches *)
SafeIdChars == {"a", "Z", "7", "_", ".", "-"}

(* C16: the name getGroupDir derives from an identifier has the length of  *)
(* the identifier, keeps each of its characters in [A-Za-z0-9_.-], has '_' *)
(* in the place of every other one, and is its own derived name.           *)
C16_SanitizeCharwise ==
  call.op \in {"getGroupDir", "again"} =>
    /\ Len(call.groupDir) = Len(call.chat)
    /\ \A i \in 1..Len(call.chat) :
         /\ call.chat[i] \in SafeIdChars => call.groupDir[i] = call.chat[i]
         /\ call.chat[i] \notin SafeIdChars => call.groupDir[i] = "_"
         /\ call.groupDir[i] \in SafeIdChars
    /\ call.op = "again" => call.groupDir = call.chat

(* "@/ " became "___", and "___" again "___" *)
C16_Witness ==
  /\ call.op = "again"
  /\ prev.chat = <<"@", "/", " ">>
  /\ call.chat = <<"_", "_", "_">>
  /\ call.groupDir = <<"_", "_", "_">>

(* The files a store call created or changed *)
writtenBy(c) ==
  {p \in DOMAIN disk : p \notin DOMAIN c.diskBefore \/ disk[p] # c.diskBefore[p]}

(* C17: every file a store call writes has a directory name and a file     *)
(* name of characters in [A-Za-z0-9_.-] only.                              *)
C17_KeysSanitized ==
  call.op \in {"load", "apply"} =>
    \A p \in writtenBy(call) :
      /\ \A i \in 1..Len(p[1]) : p[1][i] \in Letters \cup Digits \cup {"_", ".", "-"}
      /\ \A i \in 1..Len(p[2]) : p[2][i] \in Letters \cup Digits \cup {"_", ".", "-"}

(* C18: a record whose read failed during a load is on disk as it was.     *)
C18_ReadFailureKeepsRecord ==
  call.op = "load" =>
    \A p \in call.readFailed :
      p \in DOMAIN disk /\ disk[p] = call.diskBefore[p]

bufferedBodies == {messageBuffer[k].body : k \in 1..Len(messageBuffer)}

(* C21: no message is lost.  Every message received since the window of a  *)
(* callback opened is in the payload of that callback or is still in the   *)
(* buffer, from which a later payload is built.                            *)
C21_NoMessageLost ==
  \A c \in Callbacks :
    \A n \in c.opener..arrived :
      \/ \E k \in 1..Len(c.messages) : c.messages[k].message = n
      \/ n \in bufferedBodies

(* C22: the timer handle is null if and only if the buffer is empty.       *)
C22_IdleIffEmpty ==
  (bufferTimer = NoTimer) <=> (messageBuffer = <<>>)

(* A callback ended after a message had arrived while it ran: the handle  *)
(* is null and the buffer, that message included, is empty                 *)
C22_Witness ==
  /\ finished.pc = "done"
  /\ finished.raised = "none"
  /\ arrived > finished.last
  /\ bufferTimer = NoTimer
  /\ messageBuffer = <<>>

(* C23: while a timeout is pending the buffer is not empty, and every      *)
(* callback found at least one message at expiry: no payload has an empty  *)
(* messages list.                                                          *)
C23_PayloadNotEmpty ==
  /\ timers # <<>> => messageBuffer # <<>>
  /\ \A c \in Callbacks : Len(c.batch) >= 1 /\ Len(c.messages) >= 1

(* The timer of a second window fired, after a first callback had ended    *)
(* and cleared the buffer: the second payload has one message              *)
C23_Witness ==
  /\ Len(cycles) = 1
  /\ started = 2
  /\ cycles[1].opener > 1
  /\ Len(cycles[1].messages) = 1

(* C24: persistUpdatedStates for an updated object without a group entry   *)
(* leaves the group record of the directory as it was.                     *)
C24_GroupRecordKept ==
  (call.op = "apply" /\ (call.updated = <<>> \/ call.updated[1].group = <<>>))
    => /\ groupFileOf(call.groupDir) \in DOMAIN disk
            <=> groupFileOf(call.groupDir) \in DOMAIN call.diskBefore
       /\ groupFileOf(call.groupDir) \in DOMAIN disk =>
            disk[groupFileOf(call.groupDir)]
              = call.diskBefore[groupFileOf(call.groupDir)]

====
